---- MODULE Spec2Model ----
(***************************************************************************)
(* The per-position ledger of MaCrossStrategy                              *)
(* (src/quantlab/strategies/ma_cross.py): the state kept by __init__ and   *)
(* the two notification handlers notify_order and notify_trade, driven by  *)
(* a backtesting engine that delivers one notification at a time, and the  *)
(* decision step next with the engine of run_backtest                      *)
(* (src/quantlab/core/engine.py) that executes its orders.                 *)
(*                                                                         *)
(* Numbers.  Sizes, prices and commissions are integers (shares and        *)
(* currency units).  The code's float division in the average-cost update  *)
(* is modelled exactly: _avg_cost and _realized_pnl are rationals, kept as *)
(* reduced fractions <<numerator, denominator>> with denominator > 0.      *)
(***************************************************************************)
EXTENDS Integers, Sequences, FiniteSets, TLC

VARIABLES
    export_fills,      \* params.export_fills
    now,               \* self.datas[0].datetime.datetime(0): the current bar
    pos_size,          \* self._pos_size
    avg_cost,          \* self._avg_cost (rational)
    realized_pnl,      \* self._realized_pnl (rational)
    comm_total,        \* self._comm_total
    first_entry_time,  \* self._first_entry_time
    fills,             \* self._fills
    size_peak,         \* self._size_peak
    trades,            \* self.trades
    fills_log,         \* self.fills_log
    ev,                \* history: the notification processed last
    nev,               \* history: number of fills and closed trades processed
    owed,              \* history: a fill emptied the position, its close is due
    conf,              \* history: the engine has kept its contract so far
    roundtrips,        \* history: times the position went from open to flat
    pos_nets,          \* history: net quantity after each fill of the position
    trade_cash,        \* engine: sale proceeds less purchase cost of its trade
    trade_comm,        \* engine: commissions charged on the fills of its trade
    stake,             \* engine: the FixedSize sizer's stake
    position,          \* engine: self.position.size
    pending,           \* engine: orders issued by next and not yet executed
    crossover,         \* self.crossover[0]: the indicator on the current bar
    tape,              \* history: the notifications of a recorded run
    replay             \* history: 0 while recording, else the next to replay

ledger == <<pos_size, avg_cost, realized_pnl, comm_total, first_entry_time,
            fills, size_peak>>

logs == <<trades, fills_log>>

history == <<ev, nev, owed, conf, roundtrips, pos_nets, trade_cash, trade_comm>>

market == <<stake, position, pending, crossover>>

recording == <<tape, replay>>

vars == <<export_fills, now, ledger, logs, history, market, recording>>

----------------------------------------------------------------------------
(* Bounds of the model *)

\* Sizes and prices of the fills the engine reports.
FillSizes == {1, 2}

FillPrices == {1, 2}

\* Notifications (fills and closed trades) in a run of Spec.
MaxEvents == 4

\* Notifications in a run of EngineSpec.
MaxRunEvents == 6

\* Notifications in a run of ScenarioSpec.
MaxScenarioEvents == 5

\* Notifications in a recorded run of TwinSpec.
MaxTape == 3

\* Fills and closed trades in a run of BacktestSpec.
MaxBarEvents == 6

\* run_backtest's default stake.
SizerStake == 100

\* One unit of commission is the rate times one unit of traded value.
CommRate == 1

----------------------------------------------------------------------------
(* Arithmetic *)

Abs(x) == IF x < 0 THEN -x ELSE x

Min(a, b) == IF a < b THEN a ELSE b

RECURSIVE GCD(_, _)
GCD(a, b) == IF b = 0 THEN a ELSE GCD(b, a % b)

\* The reduced fraction n/d (d # 0).
Frac(n, d) ==
    LET s == IF d < 0 THEN -1 ELSE 1
        g == GCD(Abs(n), Abs(d))
    IN  <<(s * n) \div g, (s * d) \div g>>

Rat(n) == <<n, 1>>

RAdd(x, y) == Frac(x[1] * y[2] + y[1] * x[2], x[2] * y[2])

RSub(x, y) == Frac(x[1] * y[2] - y[1] * x[2], x[2] * y[2])

RMul(x, y) == Frac(x[1] * y[1], x[2] * y[2])

RDiv(x, y) == Frac(x[1] * y[2], x[2] * y[1])

----------------------------------------------------------------------------
(* Values *)

\* Python's None, and a value that is present.
None == <<>>

Some(v) == <<v>>

Completed == "Completed"

NotCompleted == {"Submitted", "Accepted", "Partial", "Canceled", "Margin",
                 "Rejected"}

\* The broker's commission on a fill: rate * size * price, in units of the
\* rate (run_backtest's setcommission).
Commission(size, price) == CommRate * Abs(size) * price

\* order.executed of a Completed order: size is signed (buy +, sell -).
Executed(b, q, p) ==
    [status |-> Completed, isbuy |-> b, size |-> IF b THEN q ELSE -q,
     price |-> p, comm |-> Commission(q, p)]

\* Fills the specification allows, and fills at a price that is not positive
\* (a negative price also makes the commission negative).
CompletedOrders ==
    { Executed(b, q, p) : b \in BOOLEAN, q \in FillSizes, p \in FillPrices }
      \cup { Executed(b, 1, p) : b \in BOOLEAN, p \in {-1, 0} }

\* The fills of the two worked scenarios: BUY 100 @ 10, SELL 100 @ 11, and
\* BUY 50 @ 10, BUY 50 @ 12, SELL 60 @ 13, SELL 40 @ 14.
ScenarioOrders ==
    { Executed(TRUE, 100, 10), Executed(FALSE, 100, 11),
      Executed(TRUE, 50, 10), Executed(TRUE, 50, 12),
      Executed(FALSE, 60, 13), Executed(FALSE, 40, 14) }

\* An order in any other status.
OtherOrders ==
    { [status |-> s, isbuy |-> TRUE, size |-> 0, price |-> 0, comm |-> 0] :
         s \in NotCompleted }

\* The figures of a closed trade: the engine keeps pnlcomm = pnl - commission.
ClosedTrades ==
    { [isclosed |-> TRUE, dtopen |-> t, pnl |-> g, commission |-> CommRate,
       pnlcomm |-> Some(g - CommRate)] :
         t \in {IF now > 0 THEN now - 1 ELSE 0, now}, g \in {-1, 1} }

\* The closed trade as the engine reports it when it has kept its books over
\* the fills of the position: opened at the bar of the first of those fills,
\* gross PnL the sale proceeds less the purchase cost, commission the sum of
\* the fills' commissions, net PnL the gross PnL less the commission.
EngineClosedTrades ==
    { [isclosed |-> TRUE, dtopen |-> now - Len(pos_nets) + 1,
       pnl |-> trade_cash, commission |-> trade_comm,
       pnlcomm |-> Some(trade_cash - trade_comm)] }

OpenTrades ==
    { [isclosed |-> FALSE, dtopen |-> now, pnl |-> 0, commission |-> 0,
       pnlcomm |-> Some(0)] }

\* The preconditions the specification puts on a fill.
ValidFill(order) == order.price > 0 /\ order.comm >= 0

RECURSIVE SeqMax(_)
SeqMax(s) ==
    IF s = <<>> THEN 0
    ELSE LET m == SeqMax(Tail(s)) IN IF Head(s) > m THEN Head(s) ELSE m

Last(s) == s[Len(s)]

----------------------------------------------------------------------------
(* __init__ *)

Constructed ==
    /\ export_fills \in BOOLEAN
    /\ now = 0
    /\ pos_size = 0
    /\ avg_cost = Rat(0)
    /\ realized_pnl = Rat(0)
    /\ comm_total = 0
    /\ first_entry_time = None
    /\ fills = <<>>
    /\ size_peak = 0
    /\ trades = <<>>
    /\ fills_log = <<>>
    /\ ev = [kind |-> "init", size |-> 0, price |-> 0, comm |-> 0]
    /\ nev = 0
    /\ owed = FALSE
    /\ conf = TRUE
    /\ roundtrips = 0
    /\ pos_nets = <<>>
    /\ trade_cash = 0
    /\ trade_comm = 0
    /\ position = 0
    /\ pending = <<>>
    /\ crossover = 0

\* run_backtest with its default stake, and with a stake of the caller's.
NothingRecorded == tape = <<>> /\ replay = 0

Init == Constructed /\ stake = SizerStake /\ NothingRecorded

BacktestInit ==
    Constructed /\ stake \in FillSizes \cup {SizerStake} /\ NothingRecorded

----------------------------------------------------------------------------
(* notify_order *)

FillEntry(dt, side, size, price, comm) ==
    [time |-> dt, side |-> side, size |-> size, price |-> price,
     commission |-> comm]

Side(order) == IF order.isbuy THEN "BUY" ELSE "SELL"

LogFill_OpenPositionOnly(log, dt, order) ==
    IF export_fills /\ (order.isbuy \/ pos_size > 0)
    THEN Append(log, FillEntry(dt, Side(order), order.size, order.price,
                               order.comm))
    ELSE log

\* fills_log after the export step.
LogFill(log, dt, order) ==
    IF export_fills
    THEN Append(log, FillEntry(dt, Side(order), order.size, order.price,
                               order.comm))
    ELSE log

EnteringFromFlat_EveryBuy(pos) == TRUE

EnteringFromFlat_NoFills(pos) == pos = 0 /\ fills = <<>>

\* Entering from flat: the per-position fields a BUY starts from.
EnteringFromFlat(pos) == pos = 0

NewSize(pos, fill_size) == pos + Abs(fill_size)

NewAvgCost_LastPrice(avg, pos, fill_price, fill_size) == Rat(fill_price)

NewAvgCost_Unweighted(avg, pos, fill_price, fill_size) ==
    IF pos = 0 THEN Rat(fill_price)
    ELSE RDiv(RAdd(avg, Rat(fill_price)), Rat(2))

\* The volume-weighted average cost after a BUY.
NewAvgCost(avg, pos, fill_price, fill_size) ==
    IF NewSize(pos, fill_size) > 0
    THEN RDiv(RAdd(RMul(avg, Rat(pos)), Rat(fill_price * Abs(fill_size))),
              Rat(NewSize(pos, fill_size)))
    ELSE avg

NewPeak_Stale(pos, peak) == peak

NewPeak_Current(pos, peak) == pos

NewPeak(pos, peak) == IF pos > peak THEN pos ELSE peak

\* The quantity a SELL takes off the position: capped to the current size.
SellQty_Uncapped(fill_size, pos) == Abs(fill_size)

SellQty_Everything(fill_size, pos) == pos

SellQty(fill_size, pos) == Min(Abs(fill_size), pos)

Realized_Proceeds(fill_price, avg, sell_qty) ==
    RMul(Rat(fill_price), Rat(sell_qty))

Realized_Reversed(fill_price, avg, sell_qty) ==
    RMul(RSub(avg, Rat(fill_price)), Rat(sell_qty))

Realized(fill_price, avg, sell_qty) ==
    RMul(RSub(Rat(fill_price), avg), Rat(sell_qty))

NewCommTotal_DropsEntry(flat, total, fill_comm) ==
    IF flat THEN 0 ELSE total + fill_comm

\* _comm_total after a BUY: the fill's commission is added first, and the
\* reset on entering from flat then restarts the total at that commission.
NewCommTotal(flat, total, fill_comm) ==
    IF flat THEN fill_comm ELSE total + fill_comm

BuyFill(dt, order) ==
    LET flat == EnteringFromFlat(pos_size)
        new_size == NewSize(pos_size, order.size)
        peak0 == IF flat THEN 0 ELSE size_peak
    IN  /\ first_entry_time' = IF flat THEN Some(dt) ELSE first_entry_time
        /\ realized_pnl' = IF flat THEN Rat(0) ELSE realized_pnl
        /\ comm_total' = NewCommTotal(flat, comm_total, order.comm)
        /\ fills' = Append(IF flat THEN <<>> ELSE fills,
                           FillEntry(dt, "BUY", order.size, order.price,
                                     order.comm))
        /\ avg_cost' = NewAvgCost(avg_cost, pos_size, order.price, order.size)
        /\ pos_size' = new_size
        /\ size_peak' = NewPeak(new_size, peak0)

SellFill_ResetsAvgWhenFlat(dt, order) ==
    LET sell_qty == SellQty(order.size, pos_size)
    IN  /\ comm_total' = comm_total + order.comm
        /\ realized_pnl' = RAdd(realized_pnl,
                                Realized(order.price, avg_cost, sell_qty))
        /\ fills' = Append(fills, FillEntry(dt, "SELL", -sell_qty, order.price,
                                            order.comm))
        /\ pos_size' = pos_size - sell_qty
        /\ avg_cost' = IF pos_size' = 0 THEN Rat(0) ELSE avg_cost
        /\ UNCHANGED <<first_entry_time, size_peak>>

SellFill_RealizesFillQty(dt, order) ==
    LET sell_qty == SellQty(order.size, pos_size)
    IN  /\ comm_total' = comm_total + order.comm
        /\ realized_pnl' = RAdd(realized_pnl,
                                Realized(order.price, avg_cost,
                                         Abs(order.size)))
        /\ fills' = Append(fills, FillEntry(dt, "SELL", -sell_qty, order.price,
                                            order.comm))
        /\ pos_size' = pos_size - sell_qty
        /\ UNCHANGED <<avg_cost, first_entry_time, size_peak>>

SellFill_CommissionWhenExported(dt, order) ==
    LET sell_qty == SellQty(order.size, pos_size)
    IN  /\ comm_total' = IF export_fills THEN comm_total + order.comm
                                         ELSE comm_total
        /\ realized_pnl' = RAdd(realized_pnl,
                                Realized(order.price, avg_cost, sell_qty))
        /\ fills' = Append(fills, FillEntry(dt, "SELL", -sell_qty, order.price,
                                            order.comm))
        /\ pos_size' = pos_size - sell_qty
        /\ UNCHANGED <<avg_cost, first_entry_time, size_peak>>

SellFill_NotListed(dt, order) ==
    LET sell_qty == SellQty(order.size, pos_size)
    IN  /\ comm_total' = comm_total + order.comm
        /\ realized_pnl' = RAdd(realized_pnl,
                                Realized(order.price, avg_cost, sell_qty))
        /\ pos_size' = pos_size - sell_qty
        /\ UNCHANGED <<avg_cost, first_entry_time, size_peak, fills>>

SellFill(dt, order) ==
    LET sell_qty == SellQty(order.size, pos_size)
    IN  /\ comm_total' = comm_total + order.comm
        /\ realized_pnl' = RAdd(realized_pnl,
                                Realized(order.price, avg_cost, sell_qty))
        /\ fills' = Append(fills, FillEntry(dt, "SELL", -sell_qty, order.price,
                                            order.comm))
        /\ pos_size' = pos_size - sell_qty
        /\ UNCHANGED <<avg_cost, first_entry_time, size_peak>>

IsCompleted_OrPartial(order) == order.status \in {Completed, "Partial"}

IsCompleted(order) == order.status = Completed

\* The history of a run, kept beside the ledger: it follows what the engine
\* delivered and the net quantity, and no handler reads it.
OrderHistory(order) ==
    IF order.status = Completed
    THEN /\ ev' = [kind |-> Side(order), size |-> order.size,
                   price |-> order.price, comm |-> order.comm]
         /\ nev' = nev + 1
         /\ owed' = (pos_size' = 0 /\ (pos_size > 0 \/ owed))
         /\ conf' = (/\ conf
                     /\ ~owed
                     /\ ValidFill(order)
                     /\ (~order.isbuy => Abs(order.size) <= pos_size))
         /\ roundtrips' =
               roundtrips + (IF pos_size > 0 /\ pos_size' = 0 THEN 1 ELSE 0)
         /\ pos_nets' = IF order.isbuy /\ pos_size = 0
                        THEN <<pos_size'>>
                        ELSE Append(pos_nets, pos_size')
         /\ trade_cash' = trade_cash - order.size * order.price
         /\ trade_comm' = trade_comm + order.comm
    ELSE UNCHANGED history

\* A fill arrives on the bar after the previous one: next issues at most one
\* order per bar and the engine executes it on the following bar.
notify_order(order) ==
    /\ now' = IF order.status = Completed THEN now + 1 ELSE now
    /\ \/ /\ ~IsCompleted(order)
          /\ UNCHANGED <<ledger, logs>>
       \/ /\ IsCompleted(order)
          /\ fills_log' = LogFill(fills_log, now', order)
          /\ IF order.isbuy THEN BuyFill(now', order) ELSE SellFill(now', order)
          /\ UNCHANGED trades
    /\ OrderHistory(order)
    /\ UNCHANGED export_fills

----------------------------------------------------------------------------
(* notify_trade *)

IsClosed_Always(trade) == TRUE

IsClosed(trade) == trade.isclosed

DtOpen(entry, trade) == IF entry # None THEN entry[1] ELSE trade.dtopen

NetPnl_Gross(trade) == trade.pnl

NetPnl(trade) == IF trade.pnlcomm # None THEN trade.pnlcomm[1] ELSE trade.pnl

TradeSummary(trade, dt_close) ==
    [entry_time |-> DtOpen(first_entry_time, trade),
     exit_time |-> dt_close,
     size_peak |-> size_peak,
     avg_entry_cost |-> avg_cost,
     gross_pnl |-> trade.pnl,
     net_pnl |-> NetPnl(trade),
     commission |-> trade.commission,
     fills_count |-> Len(fills)]

ResetLedger_KeepsCommission ==
    /\ pos_size' = 0
    /\ avg_cost' = Rat(0)
    /\ realized_pnl' = Rat(0)
    /\ first_entry_time' = None
    /\ fills' = <<>>
    /\ size_peak' = 0
    /\ UNCHANGED comm_total

ResetLedger ==
    /\ pos_size' = 0
    /\ avg_cost' = Rat(0)
    /\ realized_pnl' = Rat(0)
    /\ comm_total' = 0
    /\ first_entry_time' = None
    /\ fills' = <<>>
    /\ size_peak' = 0

TradeHistory(trade) ==
    IF trade.isclosed
    THEN /\ ev' = [kind |-> "CLOSE", size |-> 0, price |-> 0, comm |-> 0]
         /\ nev' = nev + 1
         /\ owed' = FALSE
         /\ conf' = (conf /\ owed)
         /\ pos_nets' = <<>>
         /\ trade_cash' = 0
         /\ trade_comm' = 0
         /\ UNCHANGED roundtrips
    ELSE UNCHANGED history

notify_trade(trade) ==
    /\ \/ /\ ~IsClosed(trade)
          /\ UNCHANGED <<ledger, logs>>
       \/ /\ IsClosed(trade)
          /\ trades' = Append(trades, TradeSummary(trade, now))
          /\ ResetLedger
          /\ UNCHANGED fills_log
    /\ TradeHistory(trade)
    /\ UNCHANGED <<export_fills, now>>

----------------------------------------------------------------------------
(* The engine delivers one notification at a time.  In Spec the           *)
(* notifications come in any order and with any of the enumerated figures; *)
(* in EngineSpec the engine keeps the contract the ledger is written for:  *)
(* valid fills, no sale beyond the holdings, and the closed trade notified *)
(* exactly when a fill has emptied the position, before any other fill.    *)

Next ==
    \/ \E order \in OtherOrders :
          nev < MaxEvents /\ notify_order(order) /\ UNCHANGED <<market, recording>>
    \/ \E order \in CompletedOrders :
          nev < MaxEvents /\ notify_order(order) /\ UNCHANGED <<market, recording>>
    \/ \E trade \in OpenTrades :
          nev < MaxEvents /\ notify_trade(trade) /\ UNCHANGED <<market, recording>>
    \/ \E trade \in ClosedTrades :
          nev < MaxEvents /\ notify_trade(trade) /\ UNCHANGED <<market, recording>>

Spec == Init /\ [][Next]_vars

EngineNext ==
    \/ \E order \in OtherOrders :
          nev < MaxRunEvents /\ notify_order(order) /\ conf'
             /\ UNCHANGED <<market, recording>>
    \/ \E order \in CompletedOrders :
          nev < MaxRunEvents /\ notify_order(order) /\ conf'
             /\ UNCHANGED <<market, recording>>
    \/ \E trade \in OpenTrades :
          nev < MaxRunEvents /\ notify_trade(trade) /\ conf'
             /\ UNCHANGED <<market, recording>>
    \/ \E trade \in EngineClosedTrades :
          nev < MaxRunEvents /\ notify_trade(trade) /\ conf'
             /\ UNCHANGED <<market, recording>>

EngineSpec == Init /\ [][EngineNext]_vars

\* The engine delivers the fills of the worked scenarios, in any order, and
\* notifies the closed trade when a fill has emptied the position.
ScenarioNext ==
    \/ \E order \in ScenarioOrders :
          nev < MaxScenarioEvents /\ notify_order(order)
             /\ UNCHANGED <<market, recording>>
    \/ \E trade \in EngineClosedTrades :
          nev < MaxScenarioEvents /\ owed /\ notify_trade(trade)
             /\ UNCHANGED <<market, recording>>

ScenarioSpec == Init /\ [][ScenarioNext]_vars

----------------------------------------------------------------------------
(* next, and the engine that runs the strategy bar by bar *)

\* The values of the CrossOver indicator: close crossed below the moving
\* average, no cross, crossed above.
Crossovers == {-1, 0, 1}

Orders_IgnoresPosition(pos, c) ==
    IF c > 0 THEN <<"BUY">> ELSE IF c < 0 THEN <<"SELL">> ELSE <<>>

\* The orders next issues on a bar, given the engine's position and the
\* indicator.
Orders(pos, c) ==
    IF pos = 0 /\ c > 0 THEN <<"BUY">>
    ELSE IF pos # 0 /\ c < 0 THEN <<"SELL">>
    ELSE <<>>

next(c) ==
    /\ crossover' = c
    /\ pending' = pending \o Orders(position, c)
    /\ UNCHANGED <<stake, position, recording>>
    /\ UNCHANGED <<export_fills, now, ledger, logs, history>>

\* The broker executes the oldest pending order at the sizer's stake, moves
\* the position and notifies the strategy of the Completed order.
Execute(p) ==
    /\ pending # <<>>
    /\ LET b == Head(pending) = "BUY"
       IN  /\ position' = position + (IF b THEN stake ELSE -stake)
           /\ notify_order(Executed(b, stake, p))
    /\ pending' = Tail(pending)
    /\ UNCHANGED <<stake, crossover, recording>>

\* The engine's trade is closed and has not been notified yet.
TradeDue == position = 0 /\ pos_nets # <<>>

TradeClosed(trade) ==
    /\ TradeDue
    /\ notify_trade(trade)
    /\ UNCHANGED <<market, recording>>

\* A bar: the engine executes the order of the previous bar and notifies
\* the trade it closed, then calls next with the bar's indicator.
BacktestNext ==
    \/ \E c \in Crossovers :
          nev < MaxBarEvents /\ pending = <<>> /\ ~TradeDue /\ next(c)
    \/ \E p \in FillPrices : nev < MaxBarEvents /\ Execute(p)
    \/ \E trade \in EngineClosedTrades :
          nev < MaxBarEvents /\ TradeClosed(trade)

BacktestSpec == BacktestInit /\ [][BacktestNext]_vars

----------------------------------------------------------------------------
(* The same notifications delivered to two strategies                      *)

\* What a run shows after a notification: the per-position fields and the
\* trade log.
Shown == <<ledger, trades>>

Taped(kind, input, shown) == [kind |-> kind, input |-> input, after |-> shown]

\* A second strategy is constructed with the other setting of export_fills.
Restart ==
    /\ replay = 0
    /\ tape # <<>>
    /\ export_fills' = ~export_fills
    /\ now' = 0
    /\ pos_size' = 0
    /\ avg_cost' = Rat(0)
    /\ realized_pnl' = Rat(0)
    /\ comm_total' = 0
    /\ first_entry_time' = None
    /\ fills' = <<>>
    /\ size_peak' = 0
    /\ trades' = <<>>
    /\ fills_log' = <<>>
    /\ ev' = [kind |-> "init", size |-> 0, price |-> 0, comm |-> 0]
    /\ nev' = 0
    /\ owed' = FALSE
    /\ conf' = TRUE
    /\ roundtrips' = 0
    /\ pos_nets' = <<>>
    /\ trade_cash' = 0
    /\ trade_comm' = 0
    /\ position' = 0
    /\ pending' = <<>>
    /\ crossover' = 0
    /\ Constructed'
    /\ replay' = 1
    /\ UNCHANGED <<stake, tape>>

\* The notification of the recorded run that the second strategy gets next.
Replayed == tape[replay]

\* A first strategy gets notifications in any order, each recorded with what
\* the strategy shows after it; then a second strategy, constructed with the
\* other setting of export_fills, gets the recorded notifications again.
TwinNext ==
    \/ \E order \in OtherOrders \cup CompletedOrders :
          /\ replay = 0 /\ Len(tape) < MaxTape
          /\ notify_order(order)
          /\ tape' = Append(tape, Taped("order", order, Shown'))
          /\ UNCHANGED <<market, replay>>
    \/ \E trade \in OpenTrades \cup ClosedTrades :
          /\ replay = 0 /\ Len(tape) < MaxTape
          /\ notify_trade(trade)
          /\ tape' = Append(tape, Taped("trade", trade, Shown'))
          /\ UNCHANGED <<market, replay>>
    \/ Restart
    \/ /\ replay \in 1..Len(tape) /\ Replayed.kind = "order"
       /\ notify_order(Replayed.input)
       /\ replay' = replay + 1
       /\ UNCHANGED <<market, tape>>
    \/ /\ replay \in 1..Len(tape) /\ Replayed.kind = "trade"
       /\ notify_trade(Replayed.input)
       /\ replay' = replay + 1
       /\ UNCHANGED <<market, tape>>

TwinSpec == Init /\ [][TwinNext]_vars

----------------------------------------------------------------------------
(* Properties *)

IsFill(e) == e.kind \in {"BUY", "SELL"}

\* The step processed a Completed order / a closed trade.
FillStep == nev' = nev + 1 /\ IsFill(ev')

BuyStep == nev' = nev + 1 /\ ev'.kind = "BUY"

SellStep == nev' = nev + 1 /\ ev'.kind = "SELL"

CloseStep == nev' = nev + 1 /\ ev'.kind = "CLOSE"

\* The last fill was a SELL for more than the ledger held.
Oversold ==
    /\ ev.kind = "SELL"
    /\ fills # <<>>
    /\ Abs(Last(fills).size) < Abs(ev.size)

\* C1: after any sequence of fills and closed-trade notifications, in any
\* order, the net quantity _pos_size is never negative.
C1_NetQuantityNeverNegative == pos_size >= 0

\* A SELL for more than the holdings has just been processed, after a BUY.
C1_Witness ==
    Oversold /\ Len(fills) = 2 /\ Head(fills).side = "BUY" /\ pos_size = 0

\* C2: in every reachable state the peak quantity _size_peak is at least the
\* net quantity _pos_size.
C2_PeakAtLeastNet == size_peak >= pos_size

\* A scale-in BUY after a partial SELL: the peak stays above the net quantity.
C2_Witness ==
    ev.kind = "BUY" /\ Len(fills) >= 3 /\ size_peak > pos_size /\ pos_size > 0

\* C3: the peak quantity written into the trade record at position close is
\* the largest net quantity seen after any fill of that position, from the
\* opening BUY to the closing SELL, whatever earlier positions reached.
C3_PeakIsMaxNet ==
    [][Len(trades') > Len(trades)
         => Last(trades').size_peak = SeqMax(pos_nets)]_vars

\* Two positions closed, the second with a smaller peak than the first.
C3_Witness ==
    /\ Len(trades) = 2
    /\ trades[1].size_peak = 2
    /\ trades[2].size_peak = 1

\* The per-position fields at their FLAT defaults.
FlatDefaults ==
    /\ pos_size = 0
    /\ avg_cost = Rat(0)
    /\ realized_pnl = Rat(0)
    /\ comm_total = 0
    /\ first_entry_time = None
    /\ fills = <<>>
    /\ size_peak = 0

\* The per-position fields are those of a position made of the BUY fill just
\* processed and of nothing else.
FreshPosition ==
    /\ ev.kind = "BUY"
    /\ pos_size = Abs(ev.size)
    /\ avg_cost = Rat(ev.price)
    /\ realized_pnl = Rat(0)
    /\ comm_total = ev.comm
    /\ first_entry_time = Some(now)
    /\ fills = <<FillEntry(now, "BUY", ev.size, ev.price, ev.comm)>>
    /\ size_peak = Abs(ev.size)

\* C4: a closed-trade notification leaves every per-position field at its FLAT
\* default, and a BUY fill that arrives while the net quantity is 0 (so the
\* next BUY after a close) yields a position that depends on that fill only.
C4_CloseResetsAndBuyStartsFresh ==
    [][/\ CloseStep => FlatDefaults'
       /\ (BuyStep /\ pos_size = 0) => FreshPosition']_vars

\* A BUY has opened a new position after a position of several fills closed.
C4_Witness ==
    /\ FreshPosition
    /\ Len(trades) >= 1
    /\ trades[1].fills_count >= 2
    /\ trades[1].avg_entry_cost # avg_cost

\* C5: the trade log starts empty, holds one record per completed round trip
\* (one less while the close of the last round trip is still due), keeps the
\* records in the order the positions closed, and only ever grows at its end.
C5_OneRecordPerRoundTrip ==
    /\ trades = <<>>
    /\ [](Len(trades) + (IF owed THEN 1 ELSE 0) = roundtrips)
    /\ [](\A i, j \in 1..Len(trades) :
             i < j => trades[i].exit_time < trades[j].exit_time)
    /\ [][/\ Len(trades') \in {Len(trades), Len(trades) + 1}
           /\ SubSeq(trades', 1, Len(trades)) = trades]_vars

\* Two round trips have completed and both records are in the log.
C5_Witness == roundtrips = 2 /\ Len(trades) = 2 /\ ~owed

\* C6: every record of the trade log has net_pnl = gross_pnl - commission.
C6_NetIsGrossMinusCommission ==
    \A i \in 1..Len(trades) :
        trades[i].net_pnl = trades[i].gross_pnl - trades[i].commission

\* A record with a commission, so that net and gross differ.
C6_Witness ==
    /\ Len(trades) >= 1
    /\ trades[1].commission > 0
    /\ trades[1].net_pnl # trades[1].gross_pnl

\* C7: a fill with price <= 0 or commission < 0 is rejected before anything
\* is changed: the per-position fields and both logs are as before the fill.
C7_InvalidFillRejected ==
    [][(FillStep /\ ~(ev'.price > 0 /\ ev'.comm >= 0))
         => UNCHANGED <<ledger, logs>>]_vars

\* C8: a closed-trade notification that arrives while the net quantity is not
\* 0 appends no record and does not reset the open position.
C8_PrematureCloseRejected ==
    [][(CloseStep /\ pos_size # 0)
         => (trades' = trades /\ UNCHANGED ledger)]_vars

AllBuys(fs) == \A i \in 1..Len(fs) : fs[i].side = "BUY"

RECURSIVE SumCost(_)
SumCost(fs) ==
    IF fs = <<>> THEN 0 ELSE Head(fs).price * Head(fs).size + SumCost(Tail(fs))

RECURSIVE SumSize(_)
SumSize(fs) == IF fs = <<>> THEN 0 ELSE Head(fs).size + SumSize(Tail(fs))

\* C9: while the position holds BUY fills only (from flat, no SELL since),
\* average cost times net quantity is the sum of price times quantity of
\* those fills: the average cost is their volume-weighted mean price.
C9_AverageCostIsVWAP ==
    (fills # <<>> /\ AllBuys(fills))
      => /\ pos_size = SumSize(fills)
         /\ RMul(avg_cost, Rat(pos_size)) = Rat(SumCost(fills))
         /\ avg_cost = Frac(SumCost(fills), SumSize(fills))

\* Several BUY fills at different prices: the mean is not a whole number.
C9_Witness == Len(fills) >= 2 /\ AllBuys(fills) /\ avg_cost[2] > 1

\* C10: a SELL fill of any quantity leaves the average cost as it was.
C10_SellKeepsAverageCost == [][SellStep => avg_cost' = avg_cost]_vars

\* A SELL for more than the holdings has emptied a position whose average
\* cost is a mean of several BUY fills.
C10_Witness ==
    /\ Oversold
    /\ pos_size = 0
    /\ Len(fills) >= 3
    /\ Head(fills).side = "BUY"
    /\ avg_cost[2] > 1

\* C11: a SELL fill for more than the net quantity is not rejected but
\* clamped: the ledger records the fill with the quantity held as the quantity
\* sold, the net quantity becomes exactly 0, and the realized PnL grows by
\* (price - average cost) times the quantity held and by nothing more.
C11_OversellClamped ==
    [][(SellStep /\ Abs(ev'.size) > pos_size)
         => /\ pos_size' = 0
            /\ fills' = Append(fills, FillEntry(now', "SELL", -pos_size,
                                                ev'.price, ev'.comm))
            /\ realized_pnl' =
                  RAdd(realized_pnl,
                       RMul(RSub(Rat(ev'.price), avg_cost), Rat(pos_size)))]_vars

\* A SELL of 2 at a price above the cost of the 1 held: the gain on the one
\* unit held has been realized.
C11_Witness ==
    /\ Oversold
    /\ Len(fills) = 2
    /\ Head(fills).side = "BUY"
    /\ Abs(ev.size) = 2
    /\ Last(fills).size = -1
    /\ realized_pnl = Rat(1)

\* The last fill was a SELL that found nothing to sell: it arrived while the
\* net quantity was 0.
SoldNothing ==
    /\ ev.kind = "SELL"
    /\ pos_size = 0
    /\ fills # <<>>
    /\ Last(fills).side = "SELL"
    /\ Last(fills).size = 0

\* C12: a SELL fill that arrives while the net quantity is 0 leaves the
\* realized PnL, the average cost, the net quantity and the peak quantity as
\* they were, and the BUY fill that follows it opens a position that depends
\* on that BUY only, so the position and its trade record carry no trace of
\* the SELL.
C12_SellWhileFlatIsNoOp ==
    [][/\ (SellStep /\ pos_size = 0)
            => (/\ UNCHANGED <<realized_pnl, avg_cost, pos_size, size_peak>>
                /\ SoldNothing')
       /\ (BuyStep /\ SoldNothing) => FreshPosition'
       /\ (CloseStep /\ Len(fills) = 2 /\ Head(fills).side = "BUY"
             /\ fills[2].side = "SELL" /\ fills[2].size = -fills[1].size
             /\ first_entry_time = Some(now - 1))
            => /\ Last(trades').entry_time = now - 1
               /\ Last(trades').fills_count = 2
               /\ Last(trades').size_peak = Abs(Head(fills).size)
               /\ Last(trades').avg_entry_cost = Rat(Head(fills).price)]_vars

\* A SELL while flat, then a BUY and a SELL that empties the position, then
\* the close: the record is that of the BUY and the second SELL alone.
C12_Witness ==
    /\ export_fills
    /\ nev = 4
    /\ Len(trades) = 1
    /\ fills_log[1].side = "SELL"
    /\ fills_log[2].side = "BUY"
    /\ trades[1].entry_time = 2
    /\ trades[1].exit_time = 3
    /\ trades[1].fills_count = 2

RECURSIVE SumComm(_)
SumComm(fs) ==
    IF fs = <<>> THEN 0 ELSE Head(fs).commission + SumComm(Tail(fs))

\* C13: while a position is open, the commission accumulator _comm_total is
\* the sum of the commissions of all the fills of that position, from the
\* opening BUY to the latest fill, the opening fill's commission counted once.
C13_CommissionIsSumOfFills ==
    /\ [](pos_size > 0
            => /\ Head(fills).side = "BUY"
               /\ Len(fills) = Len(pos_nets)
               /\ comm_total = SumComm(fills))
    /\ [][/\ (BuyStep /\ pos_size = 0) => comm_total' = ev'.comm
          /\ (FillStep /\ pos_size > 0) => comm_total' = comm_total + ev'.comm
         ]_vars

\* An open position of three fills, opened after a closed-trade notification.
C13_Witness ==
    /\ pos_size > 0
    /\ Len(fills) = 3
    /\ Len(trades) = 1
    /\ comm_total >= 3

\* C14: with fill export enabled, fills_log holds one entry for every
\* Completed fill of the whole run, in arrival order and whatever the
\* position was when it arrived; every fill appends its entry, nothing else
\* changes the log, and the reset at position close leaves it as it is.
C14_FillLogIsComplete ==
    /\ [](export_fills
            => /\ Len(fills_log) = now
               /\ \A i \in 1..Len(fills_log) : fills_log[i].time = i)
    /\ [][export_fills
            => /\ FillStep
                   => fills_log' =
                         Append(fills_log,
                                FillEntry(now', ev'.kind, ev'.size, ev'.price,
                                          ev'.comm))
               /\ ~FillStep => fills_log' = fills_log]_vars

\* The log holds more fills than the open position: it kept the BUY and the
\* SELL of the position that was closed before this one was opened.
C14_Witness ==
    /\ export_fills
    /\ Len(fills_log) = 3
    /\ Len(trades) = 1
    /\ trades[1].fills_count = 2
    /\ fills_log[1].side = "BUY"
    /\ fills_log[2].side = "SELL"
    /\ Len(fills) = 1
    /\ pos_size > 0

\* The open position is one BUY and one SELL of the same quantity at the same
\* price, and the SELL has emptied it.
RoundTripAtOnePrice ==
    /\ Len(fills) = 2
    /\ fills[1].side = "BUY"
    /\ fills[2].side = "SELL"
    /\ fills[2].size = -fills[1].size
    /\ fills[2].price = fills[1].price
    /\ pos_nets = <<fills[1].size, 0>>

\* C15: a round trip of a single BUY of S at P and a single SELL of S at the
\* same P leaves a ledger realized PnL of 0, and its trade record has a gross
\* PnL of 0, for every S and P.
C15_RoundTripAtOnePriceIsZero ==
    [][/\ (SellStep /\ Len(fills) = 1 /\ Head(fills).side = "BUY"
             /\ ev'.size = -Head(fills).size /\ ev'.price = Head(fills).price)
            => (realized_pnl' = Rat(0) /\ RoundTripAtOnePrice')
       /\ (CloseStep /\ RoundTripAtOnePrice)
            => (realized_pnl = Rat(0) /\ Last(trades').gross_pnl = 0)]_vars

\* The record of a BUY of 2 at 2 and a SELL of 2 at 2: no gross PnL, and a
\* net loss of the two commissions.
C15_Witness ==
    /\ Len(trades) >= 1
    /\ trades[1].fills_count = 2
    /\ trades[1].size_peak = 2
    /\ trades[1].avg_entry_cost = Rat(2)
    /\ trades[1].gross_pnl = 0
    /\ trades[1].net_pnl = -(2 * Commission(2, 2))

\* The sides, quantities and prices of the fills of the open position.
Trace(fs) == [i \in 1..Len(fs) |-> <<fs[i].side, fs[i].size, fs[i].price>>]

ScenarioB ==
    << <<"BUY", 50, 10>>, <<"BUY", 50, 12>>, <<"SELL", -60, 13>>,
       <<"SELL", -40, 14>> >>

\* C16: every SELL fill adds to the realized PnL exactly (fill price -
\* average cost) times the quantity sold, with the average cost in force
\* before the fill.  BUY 50 @ 10, BUY 50 @ 12, SELL 60 @ 13, SELL 40 @ 14
\* gives an average cost of 11 after the buys, a realized PnL of 120 after the
\* first sell and of 240 in total, a peak quantity of 100 and 4 fills.
C16_SellRealizesAgainstAverage ==
    /\ [][SellStep
            => realized_pnl' =
                  RAdd(realized_pnl,
                       RMul(RSub(Rat(ev'.price), avg_cost),
                            Rat(Min(Abs(ev'.size), pos_size))))]_vars
    /\ [](Trace(fills) = SubSeq(ScenarioB, 1, 2)
            => (avg_cost = Rat(11) /\ size_peak = 100 /\ pos_size = 100))
    /\ [](Trace(fills) = SubSeq(ScenarioB, 1, 3)
            => (realized_pnl = Rat(120) /\ avg_cost = Rat(11)
                  /\ pos_size = 40))
    /\ [](Trace(fills) = ScenarioB
            => (realized_pnl = Rat(240) /\ size_peak = 100 /\ pos_size = 0))
    /\ [][(CloseStep /\ Trace(fills) = ScenarioB)
            => /\ Last(trades').size_peak = 100
               /\ Last(trades').fills_count = 4
               /\ Last(trades').avg_entry_cost = Rat(11)]_vars

\* The record of the scale-in and scale-out scenario has been written.
C16_Witness ==
    /\ Len(trades) = 1
    /\ trades[1].fills_count = 4
    /\ trades[1].size_peak = 100
    /\ trades[1].avg_entry_cost = Rat(11)
    /\ trades[1].gross_pnl = 240
    /\ ev.kind = "CLOSE"
    /\ now = 4

\* The two logical states of the ledger.
FLAT == pos_size = 0

OPEN == pos_size > 0

\* C17: the ledger starts FLAT and is always FLAT or OPEN.  A BUY fill in
\* FLAT leads to OPEN and starts the bookkeeping of a new position; a BUY
\* fill or a partial SELL in OPEN stays in OPEN; a SELL in OPEN that brings
\* the net quantity to 0 leads to FLAT, and the next notification processed
\* after it is the closed trade, before any further fill.
C17_FlatOpenStateMachine ==
    /\ FLAT
    /\ [](FLAT \/ OPEN)
    /\ [][/\ (BuyStep /\ FLAT) => (OPEN' /\ FreshPosition')
          /\ (BuyStep /\ OPEN) => OPEN'
          /\ (SellStep /\ OPEN /\ Abs(ev'.size) < pos_size) => OPEN'
          /\ (SellStep /\ OPEN /\ Abs(ev'.size) >= pos_size)
               => (FLAT' /\ owed')
          /\ (owed /\ nev' = nev + 1) => (CloseStep /\ FLAT' /\ ~owed')
          /\ (CloseStep \/ ~(nev' = nev + 1)) => (FLAT' <=> FLAT)]_vars

\* Every transition has been taken: a position opened, scaled in, partly
\* sold, emptied and closed, and a new position opened.
C17_Witness ==
    /\ nev = 6
    /\ Len(trades) = 1
    /\ trades[1].fills_count = 4
    /\ trades[1].size_peak = 2
    /\ OPEN
    /\ FreshPosition

C19_EntryTimeIsOpeningBuy ==
    /\ [][/\ (BuyStep /\ pos_size = 0) => first_entry_time' = Some(now')
          /\ (FillStep /\ pos_size > 0) => first_entry_time' = first_entry_time
          /\ CloseStep
               => /\ Some(Last(trades').entry_time) = first_entry_time
                  /\ Last(trades').entry_time = now - Len(pos_nets) + 1]_vars
    /\ [](\A i, j \in 1..Len(trades) :
             i < j => trades[i].exit_time < trades[j].entry_time)

\* A position of three fills has closed with the time of its first fill as
\* entry time, and the position opened after it keeps the time of its own
\* opening BUY through a second fill.
C19_Witness ==
    /\ Len(trades) = 1
    /\ trades[1].fills_count = 3
    /\ trades[1].entry_time = 1
    /\ trades[1].exit_time = 3
    /\ Len(fills) = 2
    /\ now = 5
    /\ first_entry_time = Some(4)

\* C20: next issues at most one order per bar, a BUY only when the engine's
\* position is flat and the close crossed above the moving average, a SELL
\* only when a position is held and the close crossed below it.  With an
\* engine that fills each order at the fixed stake before the next decision,
\* the position is always 0 or one stake and the ledger agrees with it: no
\* scale-in, no sale beyond the holdings and no short position ever occurs.
C20_OneStakeAtMost ==
    /\ [](Len(pending) <= 1)
    /\ [][pending' # pending /\ Len(pending') >= Len(pending)
            => /\ pending' = Append(pending, Last(pending'))
               /\ Last(pending') = "BUY" => (position = 0 /\ crossover' > 0)
               /\ Last(pending') = "SELL" => (position # 0 /\ crossover' < 0)
         ]_vars
    /\ [](position \in {0, stake})
    /\ [](pos_size = position /\ size_peak <= stake /\ conf)
    /\ [][/\ BuyStep => (pos_size = 0 /\ pos_size' = stake)
          /\ SellStep => (pos_size = stake /\ pos_size' = 0)]_vars
    /\ [](\A i \in 1..Len(trades) :
             trades[i].size_peak = stake /\ trades[i].fills_count = 2)

\* A round trip of one stake has closed and a second position of one stake
\* is held; the close has crossed above the average again and next has
\* issued nothing.
C20_Witness ==
    /\ Len(trades) = 1
    /\ trades[1].size_peak = 2
    /\ stake = 2
    /\ position = 2
    /\ pos_size = 2
    /\ Len(fills) = 1
    /\ crossover = 1
    /\ pending = <<>>

\* The step delivers a notification to the first strategy, or to the second.
RecordStep == replay = 0 /\ replay' = 0 /\ Len(tape') = Len(tape) + 1

ReplayStep == replay >= 1 /\ replay' = replay + 1

\* The notification delivered by the step.
Delivered == IF RecordStep THEN Last(tape') ELSE Replayed

OrderNotDone ==
    /\ RecordStep \/ ReplayStep
    /\ Delivered.kind = "order"
    /\ Delivered.input.status \in NotCompleted

\* C21: an order notification whose status is not Completed (submitted,
\* accepted, partial, canceled, margin, rejected) leaves the whole ledger as
\* it was: net quantity, average cost, realized PnL, commission total, entry
\* time, the position's fills, the peak quantity, the trade log and the fill
\* log.
C21_OrderNotCompletedIsNoOp ==
    [][OrderNotDone => UNCHANGED <<ledger, logs>>]_vars

\* A partially executed order has been notified while a position of two
\* fills is open and both fills are in the fill log.
C21_Witness ==
    /\ replay = 0
    /\ Len(tape) = 3
    /\ tape[1].kind = "order"
    /\ tape[1].input.status = Completed
    /\ tape[2].kind = "order"
    /\ tape[2].input.status = Completed
    /\ tape[3].kind = "order"
    /\ tape[3].input.status = "Partial"
    /\ pos_size > 0
    /\ Len(fills) = 2
    /\ export_fills
    /\ Len(fills_log) = 2

TradeNotified(closed) ==
    /\ RecordStep \/ ReplayStep
    /\ Delivered.kind = "trade"
    /\ Delivered.input.isclosed = closed

\* C22: a trade notification for a trade that is not closed appends no
\* record and leaves every per-position field as it was; a closed-trade
\* notification appends one record and resets the per-position fields, and
\* nothing else makes the trade log grow.
C22_OnlyClosedTradeRecords ==
    [][/\ TradeNotified(FALSE) => UNCHANGED <<ledger, logs>>
       /\ TradeNotified(TRUE)
            => /\ Len(trades') = Len(trades) + 1
               /\ SubSeq(trades', 1, Len(trades)) = trades
               /\ FlatDefaults'
       /\ Len(trades') > Len(trades) => TradeNotified(TRUE)]_vars

\* The first strategy got a BUY, an open-trade notification and a
\* closed-trade notification, which wrote one record; the second has got the
\* BUY and the open-trade notification and holds the position with no record.
C22_Witness ==
    /\ replay = 3
    /\ Len(tape) = 3
    /\ tape[1].kind = "order"
    /\ tape[1].input.status = Completed
    /\ tape[2].kind = "trade"
    /\ ~tape[2].input.isclosed
    /\ pos_size > 0
    /\ Len(fills) = 1
    /\ trades = <<>>
    /\ tape[3].kind = "trade"
    /\ tape[3].input.isclosed
    /\ Len(tape[3].after[2]) = 1

\* C23: within a position with no clamped SELL, after every fill the
\* realized PnL equals the sale proceeds less the purchase cost of the
\* position's fills plus average cost times net quantity, for any
\* interleaving of scale-in BUYs and partial SELLs; when the position is
\* flat again the realized PnL is the sale proceeds less the purchase cost.
C23_RealizedIsCashPlusHoldings ==
    /\ realized_pnl = RAdd(Rat(trade_cash), RMul(avg_cost, Rat(pos_size)))
    /\ pos_size = 0 => realized_pnl = Rat(trade_cash)

\* BUY, partial SELL, scale-in BUY and partial SELL at different prices: the
\* average cost and the realized PnL are not whole numbers.
C23_Witness ==
    /\ Len(fills) = 4
    /\ fills[1].side = "BUY"
    /\ fills[2].side = "SELL"
    /\ fills[3].side = "BUY"
    /\ fills[4].side = "SELL"
    /\ pos_size > 0
    /\ avg_cost[2] > 1
    /\ realized_pnl[2] > 1

\* C24: the export_fills setting affects the fill log only.  A strategy that
\* gets the notifications of a recorded run with the other setting shows,
\* after each of them, the per-position fields and the trade log the first
\* strategy showed; with the setting off the fill log stays empty, and the
\* setting does not change during a run.
C24_ExportTouchesFillLogOnly ==
    /\ [](replay >= 2 => Shown = tape[replay - 1].after)
    /\ [](~export_fills => fills_log = <<>>)
    /\ [][(RecordStep \/ ReplayStep) => export_fills' = export_fills]_vars

\* Both strategies have got a BUY, a SELL and the closed trade: the one with
\* the setting off shows the same record and has an empty fill log.
C24_Witness ==
    /\ replay = 4
    /\ Len(tape) = 3
    /\ ~export_fills
    /\ tape[1].kind = "order"
    /\ tape[1].input.status = Completed
    /\ tape[1].input.isbuy
    /\ tape[2].kind = "order"
    /\ tape[2].input.status = Completed
    /\ ~tape[2].input.isbuy
    /\ tape[3].kind = "trade"
    /\ tape[3].input.isclosed
    /\ Len(trades) = 1
    /\ trades[1].fills_count = 2
    /\ fills_log = <<>>

====
